---- MODULE Spec2Model ----
(***************************************************************************)
(* Boarding-time simulator (time_simulator.py): the seat sequencer (five   *)
(* boarding methods), the boarding clock (_simulate_aisle_boarding), the   *)
(* row-local blocking rule and the process-wide numpy random generator.    *)
(*                                                                         *)
(* Seats are the strings the code builds, f"{row:02d}{letter}", kept as    *)
(* sequences of one-character strings so that slicing (seat[:2], seat[2])  *)
(* and startswith are computed as the code computes them.                  *)
(*                                                                         *)
(* The generator is a seeded stream: `stream` is the part of the seed's    *)
(* output revealed so far, `pos` the number of values consumed since the   *)
(* last np.random.seed.  A value read past the revealed part is chosen     *)
(* freely and recorded, so a re-seeded run replays the same values.        *)
(***************************************************************************)
EXTENDS Naturals, Integers, Sequences, FiniteSets, TLC

VARIABLES frame, stream, pos, query

vars == <<frame, stream, pos, query>>

(* ------------------------------ bounds -------------------------------- *)

\* rows of the cabins whose order is generated (sequencer specification)
MaxRows == 4
\* columns = 2 * h for h in 1..MaxHalfColumns
MaxHalfColumns == 4
\* largest cabin (in seats) whose shuffles are enumerated exhaustively
MaxShuffleSeats == 6
\* largest cabin (in seats) replayed through the clock by a whole call
MaxCallSeats == 4
\* rows of the cabins whose fixed (unshuffled) orders are replayed by the clock alone
MaxClockRows == 2
\* rows of the cabins the blocking rule is queried on
MaxQueryRows == 2
\* their columns = 2 * h for h in 1..MaxQueryHalfColumns
MaxQueryHalfColumns == 3
\* draws taken from the generator before the sequencer is called on its own
MaxEarlierDraws == 2
\* rows of the long cabin: the first row number of three digits
LongRows == 100
\* number of distinct values an exponential draw can take: mean * 0..NumFactors-1
NumFactors == 2
\* length of the part of the seed's stream that varies; the values after it
\* are all MeanRaw
MaxFree == 7

(* --------------------------- time constants --------------------------- *)

TIME_LUGGAGE == 30
TIME_SITTING_BLOCKED == 30
TIME_PER_BLOCKING_PERSON == 15
TIME_EXTRA_LUGGAGE == 15

(* ------------------------------ methods ------------------------------- *)

RANDOM == "Random"
ROW_RANDOM == "Row Random"
BACK_TO_FRONT == "Back to Front"
WINDOW_MIDDLE_AISLE == "Window-Middle-Aisle"
STEFFEN == "Steffen Algorithm"

BoardingMethod == {RANDOM, ROW_RANDOM, BACK_TO_FRONT, WINDOW_MIDDLE_AISLE, STEFFEN}

(* ------------------------------- seats -------------------------------- *)

\* chr(ord(A) + i) for i = 0, 1, ...: the 26 letters, then the character after Z
AsciiFromA ==
    << "A", "B", "C", "D", "E", "F", "G", "H", "I", "J", "K", "L", "M",
       "N", "O", "P", "Q", "R", "S", "T", "U", "V", "W", "X", "Y", "Z",
       "[" >>

DigitChars == << "0", "1", "2", "3", "4", "5", "6", "7", "8", "9" >>

\* column_letters = [chr(ord("A") + i) for i in range(num_columns)]
column_letters(num_columns) ==
    [i \in 1..num_columns |-> AsciiFromA[i]]

RECURSIVE Digits(_)
\* the decimal digits of n >= 0, most significant first
Digits(n) ==
    IF n < 10 THEN << DigitChars[n + 1] >>
    ELSE Digits(n \div 10) \o << DigitChars[(n % 10) + 1] >>

\* f"{row:02d}": decimal, zero-padded to a width of at least two
Format02d(row) ==
    IF row < 10 THEN << "0" >> \o Digits(row) ELSE Digits(row)

\* f"{row:02d}{letter}"
SeatName(row, letter) == Format02d(row) \o << letter >>

\* int(seat[:2])
RowOf(seat) ==
    LET d(ch) == CHOOSE v \in 0..9 : DigitChars[v + 1] = ch
    IN  10 * d(seat[1]) + d(seat[2])

\* seat[2]
LetterOf(seat) == seat[3]

\* the row prefix is not compared: passengers of every row count
StartsWithAnything(seat, prefix) == Len(seat) >= Len(prefix)

\* seated_seat.startswith(f"{row_num:02d}")
StartsWith(seat, prefix) ==
    /\ Len(seat) >= Len(prefix)
    /\ SubSeq(seat, 1, Len(prefix)) = prefix

\* all_seats of simulate_boarding_time: row-major, rows 1..num_rows
all_seats(num_rows, num_columns) ==
    IF num_rows <= 0 \/ num_columns <= 0 THEN << >>
    ELSE [k \in 1..(num_rows * num_columns) |->
             SeatName(((k - 1) \div num_columns) + 1,
                      column_letters(num_columns)[((k - 1) % num_columns) + 1])]

Range(s) == {s[i] : i \in 1..Len(s)}

(* --------------------------- blocking rule ---------------------------- *)

\* a slip in the table: a seated passenger one step further from the aisle counts
BlocksOutward(seat_letter, seated_letter) ==
    IF seat_letter \in {"A", "B"}
    THEN \/ (seated_letter = "A" /\ seat_letter = "B")
         \/ (seated_letter = "C" /\ seat_letter \in {"A", "B"})
    ELSE IF seat_letter \in {"E", "F"}
    THEN \/ (seated_letter = "F" /\ seat_letter = "E")
         \/ (seated_letter = "D" /\ seat_letter \in {"E", "F"})
    ELSE FALSE

\* the if/elif chain of _count_blocking_passengers for one seated passenger
Blocks(seat_letter, seated_letter) ==
    IF seat_letter \in {"A", "B"}
    THEN \/ (seated_letter = "B" /\ seat_letter = "A")
         \/ (seated_letter = "C" /\ seat_letter \in {"A", "B"})
    ELSE IF seat_letter \in {"E", "F"}
    THEN \/ (seated_letter = "E" /\ seat_letter = "F")
         \/ (seated_letter = "D" /\ seat_letter \in {"E", "F"})
    ELSE FALSE

\* seated_passengers is a dict seat -> True: its keys, as a set
_count_blocking_passengers(seat, seated_passengers) ==
    LET prefix == Format02d(RowOf(seat))
    IN  Cardinality({s \in seated_passengers :
                        /\ StartsWith(s, prefix)
                        /\ Blocks(LetterOf(seat), LetterOf(s))})

_is_last_passenger_in_row(seat, seated_passengers, num_columns) ==
    LET prefix == Format02d(RowOf(seat))
        seated_in_row == Cardinality({s \in seated_passengers : StartsWith(s, prefix)})
    IN  (seated_in_row + 1) = num_columns

(* ------------------------- random generator --------------------------- *)

\* the raw value on which a standard exponential sample is 1: the draw is its mean
MeanRaw == 1

\* np.random.exponential(scale): scale times a standard exponential sample;
\* the sample is 0 (a draw near zero), 1 (the mean), ... NumFactors - 1,
\* decided by the raw value
Exponential(scale, raw) == scale * (raw % NumFactors)

\* the draw is not scaled: every delay has the same mean
ExponentialUnscaled(scale, raw) == raw % NumFactors

\* the values the generator can return for the i-th draw after position p:
\* the recorded one when the seed's stream is revealed that far, else any of
\* n representatives
NextValuesUnseeded(str, p, i, n) ==
    IF p + i > MaxFree THEN {MeanRaw} ELSE 0..(n - 1)

NextValues(str, p, i, n) ==
    IF p + i <= Len(str) THEN {str[p + i]}
    ELSE IF p + i > MaxFree THEN {MeanRaw}
    ELSE 0..(n - 1)

RECURSIVE TapesFrom(_, _, _, _)
\* the sequences of raw values draws i..Len(need) can return; need[i] is the
\* number of outcomes the i-th consumer distinguishes
TapesFrom(i, need, str, p) ==
    IF i > Len(need) THEN {<< >>}
    ELSE {<< v >> \o rest : v \in NextValues(str, p, i, need[i]),
                           rest \in TapesFrom(i + 1, need, str, p)}

Tapes(need, str, p) == TapesFrom(1, need, str, p)

\* the stream after the draws `tape` were taken from position p
Reveal(str, p, tape) ==
    LET n == IF p + Len(tape) > Len(str) THEN p + Len(tape) ELSE Len(str)
    IN  [i \in 1..n |-> IF i <= Len(str) THEN str[i] ELSE tape[i - p]]

Swap(xs, i, j) == [xs EXCEPT ![i] = xs[j], ![j] = xs[i]]

RECURSIVE ShuffleFrom(_, _, _, _)
\* np.random.shuffle: for i in reversed(range(1, n)): j = interval(i); swap
\* (1-based here: i = n down to 2, j in 1..i); raws[k] feeds the k-th swap
ShuffleFrom(xs, raws, i, k) ==
    IF i < 2 THEN xs
    ELSE ShuffleFrom(Swap(xs, i, (raws[k] % i) + 1), raws, i - 1, k + 1)

Shuffle(xs, raws) == ShuffleFrom(xs, raws, Len(xs), 1)

\* what the draws of one shuffle of n items distinguish: i outcomes at index i
ShuffleNeed(n) == [k \in 1..(n - 1) |-> n - k + 1]

(* ----------------------------- sequencer ------------------------------ *)

\* range(1, num_rows + 1) and range(num_rows, 0, -1)
AscRows(num_rows) == [i \in 1..num_rows |-> i]
DescRows(num_rows) == [i \in 1..num_rows |-> num_rows - i + 1]

\* for row in rows: for letter in column_letters: the (row, letter) visits
Visits(rows, num_columns) ==
    IF num_columns <= 0 THEN << >>
    ELSE [k \in 1..(Len(rows) * num_columns) |->
             << rows[((k - 1) \div num_columns) + 1],
                column_letters(num_columns)[((k - 1) % num_columns) + 1] >>]

\* the seats appended by one such double loop: those whose name is in seats
Appended(visits, seats) ==
    LET kept == SelectSeq(visits, LAMBDA v : SeatName(v[1], v[2]) \in Range(seats))
    IN  [i \in 1..Len(kept) |-> SeatName(kept[i][1], kept[i][2])]

\* a letter missing from the table is dropped instead of boarding with the aisle
seat_priority_no_default(letter) ==
    CASE letter \in {"A", "F"} -> 1
      [] letter \in {"B", "E"} -> 2
      [] letter \in {"C", "D"} -> 3
      [] OTHER -> 4

\* seat_priority.get(letter, 3)
seat_priority(letter) ==
    CASE letter \in {"A", "F"} -> 1
      [] letter \in {"B", "E"} -> 2
      [] letter \in {"C", "D"} -> 3
      [] OTHER -> 3

\* if seat_priority.get(letter, 3) == priority
OfPriority(visits, priority) ==
    SelectSeq(visits, LAMBDA v : seat_priority(v[2]) = priority)

\* if row % 2 == parity
OfParity(rows, parity) == SelectSeq(rows, LAMBDA row : row % 2 = parity)

_random_boarding(seats, raws) == Shuffle(seats, raws)

\* the rows are walked front to back
_front_to_back_boarding(seats, num_rows, num_columns) ==
    Appended(Visits(AscRows(num_rows), num_columns), seats)

_back_to_front_boarding(seats, num_rows, num_columns) ==
    Appended(Visits(DescRows(num_rows), num_columns), seats)

RECURSIVE RowBlocks(_, _, _, _, _)
\* the loop of _row_random_boarding from the i-th shuffled row on; each row
\* consumes the next Len(row_seats) - 1 raws
RowBlocks(rows, i, seats, num_columns, raws) ==
    IF i > Len(rows) THEN << >>
    ELSE LET row_seats == Appended(Visits(<< rows[i] >>, num_columns), seats)
             used == IF Len(row_seats) >= 2 THEN Len(row_seats) - 1 ELSE 0
         IN  Shuffle(row_seats, raws)
               \o RowBlocks(rows, i + 1, seats, num_columns,
                            SubSeq(raws, used + 1, Len(raws)))

\* the two loops are nested the other way round: for every letter, the seats
\* of that letter in the shuffled rows
_row_random_by_letter(seats, num_rows, num_columns, raws) ==
    LET rows == Shuffle(AscRows(num_rows), raws)
    IN  [p \in 1..(num_rows * num_columns) |->
            SeatName(rows[((p - 1) % num_rows) + 1],
                     column_letters(num_columns)[((p - 1) \div num_rows) + 1])]

_row_random_boarding(seats, num_rows, num_columns, raws) ==
    LET used == IF num_rows >= 2 THEN num_rows - 1 ELSE 0
        rows == Shuffle(AscRows(num_rows), raws)
    IN  RowBlocks(rows, 1, seats, num_columns, SubSeq(raws, used + 1, Len(raws)))

\* every priority pass walks the rows back to front instead of front to back
_window_middle_aisle_back_to_front(seats, num_rows, num_columns) ==
    LET tier(p) == Appended(OfPriority(Visits(DescRows(num_rows), num_columns), p), seats)
    IN  tier(1) \o tier(2) \o tier(3)

_window_middle_aisle_boarding(seats, num_rows, num_columns) ==
    LET tier(p) == Appended(OfPriority(Visits(AscRows(num_rows), num_columns), p), seats)
    IN  tier(1) \o tier(2) \o tier(3)

\* the two passes are swapped: even rows board first
_steffen_even_first(seats, num_rows, num_columns) ==
    LET tier(p, parity) ==
            Appended(OfPriority(Visits(OfParity(DescRows(num_rows), parity),
                                       num_columns), p), seats)
    IN  tier(1, 0) \o tier(2, 0) \o tier(3, 0)
          \o tier(1, 1) \o tier(2, 1) \o tier(3, 1)

_steffen_boarding(seats, num_rows, num_columns) ==
    LET tier(p, parity) ==
            Appended(OfPriority(Visits(OfParity(DescRows(num_rows), parity),
                                       num_columns), p), seats)
    IN  tier(1, 1) \o tier(2, 1) \o tier(3, 1)
          \o tier(1, 0) \o tier(2, 0) \o tier(3, 0)

\* what the draws of the order generation distinguish, in the order taken
OrderNeed(method, num_rows, num_columns) ==
    LET n == IF num_rows <= 0 \/ num_columns <= 0 THEN 0 ELSE num_rows * num_columns
        RowsNeed[i \in 0..(IF num_rows > 0 THEN num_rows ELSE 0)] ==
            IF i = 0 THEN << >>
            ELSE RowsNeed[i - 1] \o (IF n = 0 THEN << >> ELSE ShuffleNeed(num_columns))
    IN  CASE method = RANDOM -> ShuffleNeed(n)
          [] method = ROW_RANDOM ->
                ShuffleNeed(IF num_rows > 0 THEN num_rows ELSE 0)
                  \o RowsNeed[IF num_rows > 0 THEN num_rows ELSE 0]
          [] OTHER -> << >>

\* the if/elif dispatch of simulate_boarding_time (method is a known one)
boarding_order(method, num_rows, num_columns, raws) ==
    LET seats == all_seats(num_rows, num_columns)
    IN  CASE method = RANDOM -> _random_boarding(seats, raws)
          [] method = ROW_RANDOM ->
                _row_random_boarding(seats, num_rows, num_columns, raws)
          [] method = BACK_TO_FRONT ->
                _back_to_front_boarding(seats, num_rows, num_columns)
          [] method = WINDOW_MIDDLE_AISLE ->
                _window_middle_aisle_boarding(seats, num_rows, num_columns)
          [] method = STEFFEN ->
                _steffen_boarding(seats, num_rows, num_columns)

(* ------------------------------- clock -------------------------------- *)

Calls == {1, 2}

IdleFrame ==
    [pc |-> "idle", method |-> "", num_rows |-> 0, num_columns |-> 0,
     boarding_order |-> << >>, idx |-> 0, seated_passengers |-> {},
     total_time |-> 0, start_pos |-> 0, draws |-> 0, end_pos |-> 0]

IdleQuery ==
    [pc |-> "idle", seat |-> << >>, seated_passengers |-> {},
     num_rows |-> 0, num_columns |-> 0, blocking_count |-> 0]

\* the blocked-sitting mean ignores how many passengers block
mean_sitting_time_flat(blocking_count) ==
    TIME_SITTING_BLOCKED + TIME_PER_BLOCKING_PERSON

mean_sitting_time(blocking_count) ==
    TIME_SITTING_BLOCKED + blocking_count * TIME_PER_BLOCKING_PERSON

\* the draws one loop iteration takes, in order: luggage, blocked sitting
\* (if blocking_count > 0), extra luggage (if last in the row)
StepNeed(seat, seated_passengers, num_columns) ==
    << NumFactors >>
      \o (IF _count_blocking_passengers(seat, seated_passengers) > 0
          THEN << NumFactors >> ELSE << >>)
      \o (IF _is_last_passenger_in_row(seat, seated_passengers, num_columns)
          THEN << NumFactors >> ELSE << >>)

\* passenger_time of one loop iteration, the draws being raws[1], raws[2], ...
passenger_time(seat, seated_passengers, num_columns, raws) ==
    LET blocking_count == _count_blocking_passengers(seat, seated_passengers)
        blocked == blocking_count > 0
        last == _is_last_passenger_in_row(seat, seated_passengers, num_columns)
        luggage_time == Exponential(TIME_LUGGAGE, raws[1])
        sitting_time ==
            IF blocked
            THEN Exponential(mean_sitting_time(blocking_count), raws[2])
            ELSE 0
        extra_luggage_time ==
            IF last
            THEN Exponential(TIME_EXTRA_LUGGAGE, raws[IF blocked THEN 3 ELSE 2])
            ELSE 0
    IN  luggage_time + sitting_time + extra_luggage_time

(* ------------------------------ actions ------------------------------- *)

Running(c) == frame[c].pc = "clock"

\* np.random.seed(42): the generator restarts the seed's stream
Seed ==
    /\ pos > 0
    /\ \A c \in Calls : ~Running(c)
    /\ pos' = 0
    /\ UNCHANGED <<frame, stream, query>>

\* the dispatch ends in a plain else: a method that is none of the five boards
\* like the last one
CallElseLastMethod(c, method, num_rows, num_columns) ==
    /\ frame[c].pc = "idle"
    /\ LET known == IF method \in BoardingMethod THEN method ELSE STEFFEN
       IN  \E tape \in Tapes(OrderNeed(known, num_rows, num_columns), stream, pos) :
               /\ frame' = [frame EXCEPT ![c] =
                     [IdleFrame EXCEPT
                        !.pc = "clock", !.method = method,
                        !.num_rows = num_rows, !.num_columns = num_columns,
                        !.boarding_order =
                            boarding_order(known, num_rows, num_columns, tape),
                        !.start_pos = pos, !.draws = Len(tape)]]
               /\ stream' = Reveal(stream, pos, tape)
               /\ pos' = pos + Len(tape)
    /\ UNCHANGED query

\* simulate_boarding_time up to the call of _simulate_aisle_boarding: the
\* seats, the dispatch on the method (ValueError on an unknown one), the
\* order; then total_time = 0.0 and seated_passengers = {}
Call(c, method, num_rows, num_columns) ==
    /\ frame[c].pc = "idle"
    /\ IF method \in BoardingMethod
       THEN \E tape \in Tapes(OrderNeed(method, num_rows, num_columns), stream, pos) :
               /\ frame' = [frame EXCEPT ![c] =
                     [IdleFrame EXCEPT
                        !.pc = "clock", !.method = method,
                        !.num_rows = num_rows, !.num_columns = num_columns,
                        !.boarding_order =
                            boarding_order(method, num_rows, num_columns, tape),
                        !.start_pos = pos, !.draws = Len(tape)]]
               /\ stream' = Reveal(stream, pos, tape)
               /\ pos' = pos + Len(tape)
       ELSE /\ frame' = [frame EXCEPT ![c] =
                     [IdleFrame EXCEPT
                        !.pc = "error", !.method = method,
                        !.num_rows = num_rows, !.num_columns = num_columns,
                        !.start_pos = pos, !.end_pos = pos]]
            /\ UNCHANGED <<stream, pos>>
    /\ UNCHANGED query

\* the dict is a module-level one: every call reads and marks the same seats
seated_passengers_of_module(c) == UNION {frame[d].seated_passengers : d \in Calls}

\* seated_passengers, the dict local to the call
seated_passengers_of(c) == frame[c].seated_passengers

\* the seat is marked occupied at the top of the iteration, before the
\* blocking count and the row count are taken
StepMarksFirst(c) ==
    /\ Running(c)
    /\ frame[c].idx < Len(frame[c].boarding_order)
    /\ LET f == frame[c]
           seat == f.boarding_order[f.idx + 1]
           seated == seated_passengers_of(c) \cup {seat}
       IN  \E tape \in Tapes(StepNeed(seat, seated, f.num_columns), stream, pos) :
              /\ frame' = [frame EXCEPT ![c] =
                    [f EXCEPT
                       !.idx = f.idx + 1,
                       !.seated_passengers = seated,
                       !.total_time = f.total_time
                           + passenger_time(seat, seated, f.num_columns, tape),
                       !.draws = f.draws + Len(tape)]]
              /\ stream' = Reveal(stream, pos, tape)
              /\ pos' = pos + Len(tape)
    /\ UNCHANGED query

\* one iteration of the loop of _simulate_aisle_boarding
Step(c) ==
    /\ Running(c)
    /\ frame[c].idx < Len(frame[c].boarding_order)
    /\ LET f == frame[c]
           seat == f.boarding_order[f.idx + 1]
           seated == seated_passengers_of(c)
       IN  \E tape \in Tapes(StepNeed(seat, seated, f.num_columns), stream, pos) :
              /\ frame' = [frame EXCEPT ![c] =
                    [f EXCEPT
                       !.idx = f.idx + 1,
                       !.seated_passengers = seated \cup {seat},
                       !.total_time = f.total_time
                           + passenger_time(seat, seated, f.num_columns, tape),
                       !.draws = f.draws + Len(tape)]]
              /\ stream' = Reveal(stream, pos, tape)
              /\ pos' = pos + Len(tape)
    /\ UNCHANGED query

\* the return statement is inside the loop: the total after the first passenger
ReturnInsideLoop(c) ==
    /\ Running(c)
    /\ frame[c].idx >= 1 \/ Len(frame[c].boarding_order) = 0
    /\ frame' = [frame EXCEPT ![c] = [@ EXCEPT !.pc = "done", !.end_pos = pos]]
    /\ UNCHANGED <<stream, pos, query>>

\* the total is returned only after a passenger was seated
ReturnNeedsPassenger(c) ==
    /\ Running(c)
    /\ frame[c].idx = Len(frame[c].boarding_order)
    /\ frame[c].idx >= 1
    /\ frame' = [frame EXCEPT ![c] = [@ EXCEPT !.pc = "done", !.end_pos = pos]]
    /\ UNCHANGED <<stream, pos, query>>

\* the loop is exhausted: return total_time
Return(c) ==
    /\ Running(c)
    /\ frame[c].idx = Len(frame[c].boarding_order)
    /\ frame' = [frame EXCEPT ![c] = [@ EXCEPT !.pc = "done", !.end_pos = pos]]
    /\ UNCHANGED <<stream, pos, query>>

(* ------------------------- the program, in sequence -------------------- *)

Columns == {2 * h : h \in 1..MaxHalfColumns}

\* a value that is no member of BoardingMethod
UnknownMethod == "Front to Back"

\* the cabins a whole call is run on: two seats to the row, A and B
CallShapes ==
    {sh \in (1..MaxRows) \X {2} : sh[1] * sh[2] <= MaxCallSeats}

\* the arguments of a call: every method on every such cabin; a cabin without
\* rows and a cabin without columns; a method that is none of the five
CallInputs ==
    (BoardingMethod \X CallShapes)
      \cup {<< RANDOM, << 0, 2 >> >>, << BACK_TO_FRONT, << 1, 0 >> >>,
            << UnknownMethod, << 1, 2 >> >>}

Init ==
    /\ frame = [c \in Calls |-> IdleFrame]
    /\ stream = << >>
    /\ pos = 0
    /\ query = IdleQuery

\* calls are made one after the other, call 1 first
CallInSequence ==
    \E c \in Calls, in \in CallInputs :
        /\ \A d \in Calls : ~Running(d)
        /\ \A d \in Calls : d < c => frame[d].pc # "idle"
        /\ Call(c, in[1], in[2][1], in[2][2])

StepCall == \E c \in Calls : Step(c)

ReturnCall == \E c \in Calls : Return(c)

Next == Seed \/ CallInSequence \/ StepCall \/ ReturnCall

Spec == Init /\ [][Next]_vars

Done(c) == frame[c].pc = "done"

SameArguments(c, d) ==
    /\ frame[c].method = frame[d].method
    /\ frame[c].num_rows = frame[d].num_rows
    /\ frame[c].num_columns = frame[d].num_columns

InvalidShape(c) ==
    \/ frame[c].num_rows <= 0
    \/ frame[c].num_columns <= 0
    \/ frame[c].num_columns > 26

\* C5: a call with an invalid cabin shape (no row, no column, more than 26
\* columns) signals an error and never returns a time value.
C5_InvalidShapeNeverReturns ==
    \A c \in Calls : InvalidShape(c) => ~Done(c)

\* C6: two calls with identical arguments that start from the same state of
\* the seeded generator produce the same boarding order and the same total.
C6_Reproducible ==
    \A c, d \in Calls :
        (Done(c) /\ Done(d) /\ SameArguments(c, d)
            /\ frame[c].start_pos = frame[d].start_pos) =>
                /\ frame[c].boarding_order = frame[d].boarding_order
                /\ frame[c].total_time = frame[d].total_time

\* a Random run of the 2 x 2 cabin, the seed reset, and the same run again:
\* a shuffled order, a blocked passenger, a draw away from its mean
C6_Witness ==
    /\ Done(1) /\ Done(2)
    /\ SameArguments(1, 2)
    /\ frame[1].method = RANDOM
    /\ frame[1].num_rows = 2 /\ frame[1].num_columns = 2
    /\ frame[1].start_pos = 0 /\ frame[2].start_pos = 0
    /\ frame[2].boarding_order[1] = SeatName(2, "B")
    /\ frame[2].draws >= 10
    /\ \E i \in 4..Len(stream) : stream[i] % NumFactors # MeanRaw

\* two Random runs from the reset seed, the same columns, the second cabin longer
SmallThenLarge(c, d) ==
    /\ Done(c) /\ Done(d)
    /\ frame[c].method = RANDOM /\ frame[d].method = RANDOM
    /\ frame[c].start_pos = 0 /\ frame[d].start_pos = 0
    /\ frame[c].num_columns = frame[d].num_columns
    /\ frame[c].num_columns > 0
    /\ 0 < frame[c].num_rows
    /\ frame[c].num_rows < frame[d].num_rows

\* C7 as stated: under Random, with the same columns and the seed reset
\* before each call, the cabin with more rows yields a strictly larger total.
C7_MoreRowsLargerTotal ==
    \A c, d \in Calls :
        SmallThenLarge(c, d) => frame[c].total_time < frame[d].total_time

\* C7 (amended): under Random, with the same columns and the seed reset before
\* each call, the cabin with more rows seats strictly more passengers, one
\* luggage draw each: columns x (difference of the rows) more.
C7_MoreRowsMorePassengers ==
    \A c, d \in Calls :
        SmallThenLarge(c, d) =>
            /\ frame[c].idx < frame[d].idx
            /\ frame[d].idx - frame[c].idx =
                   frame[c].num_columns * (frame[d].num_rows - frame[c].num_rows)

\* one row of two and then two rows of two from the same seed, the smaller
\* cabin returning the larger total
C7_Witness ==
    /\ SmallThenLarge(1, 2)
    /\ frame[1].idx = 2 /\ frame[2].idx = 4
    /\ frame[1].total_time > frame[2].total_time

\* the largest position of the seed's stream any call has drawn up to
DrawnUpTo ==
    LET ends == {frame[c].start_pos + frame[c].draws : c \in Calls}
    IN  CHOOSE e \in ends : \A x \in ends : x <= e

\* C11: a call whose method is none of the recognised ones raises (ValueError)
\* and replays nothing: it seats nobody, accumulates and returns no time and
\* consumes no draw, so the generator stays where the other calls left it.
C11_UnknownMethodRaises ==
    /\ \A c \in Calls :
          (frame[c].pc # "idle" /\ frame[c].method \notin BoardingMethod) =>
              /\ frame[c].pc = "error"
              /\ frame[c].boarding_order = << >>
              /\ frame[c].idx = 0
              /\ frame[c].seated_passengers = {}
              /\ frame[c].total_time = 0
              /\ frame[c].draws = 0
              /\ frame[c].end_pos = frame[c].start_pos
    /\ \A c \in Calls : frame[c].pc = "error" => frame[c].method \notin BoardingMethod
    /\ Len(stream) = DrawnUpTo
    /\ pos <= Len(stream)

\* a call with an unknown method raised after a Random run of the 2 x 2 cabin:
\* the generator is still where that run left it
C11_Witness ==
    /\ Done(1)
    /\ frame[1].method = RANDOM /\ frame[1].idx = 4
    /\ frame[2].pc = "error"
    /\ frame[2].method = UnknownMethod
    /\ frame[2].start_pos = frame[1].end_pos
    /\ pos = frame[1].end_pos
    /\ pos > 0

\* the call handed the clock an order without a seat
EmptyOrder(c) ==
    /\ frame[c].pc # "idle"
    /\ frame[c].method \in BoardingMethod
    /\ frame[c].boarding_order = << >>

\* C12: the clock replaying an empty order raises no error, seats nobody,
\* takes no draw and returns a total of exactly 0: its loop has no iteration to
\* run and its return is the only step it can take.
C12_EmptyOrderReturnsZero ==
    \A c \in Calls :
        EmptyOrder(c) =>
            /\ frame[c].pc \in {"clock", "done"}
            /\ frame[c].idx = 0
            /\ frame[c].seated_passengers = {}
            /\ frame[c].total_time = 0
            /\ frame[c].draws = 0
            /\ Running(c) => (ENABLED Return(c)) /\ ~(ENABLED Step(c))
            /\ Done(c) => frame[c].end_pos = frame[c].start_pos

\* the empty order of a cabin without rows was replayed and returned 0; the
\* next call found the generator untouched and drew from its start
C12_Witness ==
    /\ EmptyOrder(1) /\ Done(1)
    /\ frame[1].num_rows = 0
    /\ frame[1].total_time = 0
    /\ Done(2)
    /\ frame[2].start_pos = 0
    /\ frame[2].draws > 0
    /\ frame[2].total_time > 0

(* ---------------- the blocking rule as a pure function ----------------- *)

QueryShapes == (1..MaxQueryRows) \X {2 * h : h \in 1..MaxQueryHalfColumns}

\* the seats of row `row` of a cabin, and of its other rows
RowSeats(row, num_columns) ==
    {SeatName(row, column_letters(num_columns)[i]) : i \in 1..num_columns}

OtherRowSeats(row, num_rows, num_columns) ==
    UNION {RowSeats(r, num_columns) : r \in (1..num_rows) \ {row}}

\* a seat of the cabin and an occupancy: any set of seats of its row, with
\* at most one seat of another row
InitQuery ==
    /\ frame = [c \in Calls |-> IdleFrame]
    /\ stream = << >>
    /\ pos = 0
    /\ \E sh \in QueryShapes, row \in 1..MaxQueryRows, i \in 1..(2 * MaxQueryHalfColumns) :
          /\ row <= sh[1]
          /\ i <= sh[2]
          /\ \E own \in SUBSET RowSeats(row, sh[2]),
                other \in {{}} \cup {{s} : s \in OtherRowSeats(row, sh[1], sh[2])} :
                query = [pc |-> "arg",
                         seat |-> SeatName(row, column_letters(sh[2])[i]),
                         seated_passengers |-> own \cup other,
                         num_rows |-> sh[1], num_columns |-> sh[2],
                         blocking_count |-> 0]

CountBlocking ==
    /\ query.pc = "arg"
    /\ query' = [query EXCEPT
                    !.pc = "ret",
                    !.blocking_count =
                        _count_blocking_passengers(query.seat, query.seated_passengers)]
    /\ UNCHANGED <<frame, stream, pos>>

NextQuery == CountBlocking

SpecBlock == InitQuery /\ [][NextQuery]_vars

\* the column indices strictly between column i and the centre aisle of an
\* n-column cabin (columns 1..n/2 left of the aisle, the rest right of it)
AisleSide(i, n) ==
    IF 2 * i <= n THEN {j \in 1..n : i < j /\ 2 * j <= n}
    ELSE {j \in 1..n : j < i /\ 2 * j > n}

\* the number of occupied seats of the queried seat's row between it and the aisle
BetweenSeatAndAisle ==
    LET n == query.num_columns
        at == {rc \in (1..query.num_rows) \X (1..n) :
                  query.seat = SeatName(rc[1], column_letters(n)[rc[2]])}
    IN  Cardinality({rc \in (1..query.num_rows) \X (1..n) :
            /\ \E s \in at : rc[1] = s[1] /\ rc[2] \in AisleSide(s[2], n)
            /\ SeatName(rc[1], column_letters(n)[rc[2]]) \in query.seated_passengers})

S07(letter) == SeatName(7, letter)

TableBlockers(letter) ==
    CASE letter = "A" -> {"B", "C"}
      [] letter = "B" -> {"C"}
      [] letter = "E" -> {"D"}
      [] letter = "F" -> {"D", "E"}
      [] OTHER -> {}

OrderInputs ==
    {in \in BoardingMethod \X (1..MaxRows) \X Columns :
        in[1] \in {RANDOM, ROW_RANDOM} => in[2] * in[3] <= MaxShuffleSeats}

GenerateOrder == \E in \in OrderInputs : Call(1, in[1], in[2], in[3])

NextOrder == GenerateOrder

SpecOrder == Init /\ [][NextOrder]_vars

\* the order call 1 passes to the clock, and each entry as (row, column index)
Order == frame[1].boarding_order

Decoded ==
    [p \in 1..Len(Order) |->
        CHOOSE rc \in (1..frame[1].num_rows) \X (1..frame[1].num_columns) :
            Order[p] = SeatName(rc[1], column_letters(frame[1].num_columns)[rc[2]])]

Generated(method) == frame[1].pc = "clock" /\ frame[1].method = method

\* C1: for every method, every cabin shape (rows >= 1, even column count) and
\* every outcome of the shuffles, the order passed to the clock has length
\* rows x columns, contains every seat of the cabin and no seat twice.
C1_OrderIsPermutation ==
    frame[1].pc = "clock" =>
        /\ Len(Order) = frame[1].num_rows * frame[1].num_columns
        /\ \A row \in 1..frame[1].num_rows, i \in 1..frame[1].num_columns :
              \E p \in 1..Len(Order) :
                  Order[p] = SeatName(row, column_letters(frame[1].num_columns)[i])
        /\ \A p, q \in 1..Len(Order) : p # q => Order[p] # Order[q]

\* a Random order of a 2 x 2 cabin in which the shuffle reversed the seats
C1_Witness ==
    /\ Generated(RANDOM)
    /\ Order = << SeatName(2, "B"), SeatName(2, "A"), SeatName(1, "B"), SeatName(1, "A") >>

\* lexicographic order on triples of integers
LexLeq(a, b) ==
    \/ a[1] < b[1]
    \/ a[1] = b[1] /\ a[2] < b[2]
    \/ a[1] = b[1] /\ a[2] = b[2] /\ a[3] <= b[3]

LexLess(a, b) == LexLeq(a, b) /\ a # b

\* window (A, F), middle (B, E), aisle (C, D) of the 6-column cabin
SixColumnTier(i) == CASE i \in {1, 6} -> 1 [] i \in {2, 5} -> 2 [] OTHER -> 3

\* C9: in the Steffen order of a 6-column cabin every seat of an odd row
\* precedes every seat of an even row; within each pass window seats precede
\* middle seats, which precede aisle seats; within one tier rows go from the
\* highest row number down to the lowest.
C9_SteffenOrder ==
    (Generated(STEFFEN) /\ frame[1].num_columns = 6) =>
        \A p, q \in 1..Len(Order) :
            p < q =>
                LET key(rc) == << 1 - (rc[1] % 2), SixColumnTier(rc[2]),
                                  frame[1].num_rows - rc[1] >>
                IN  LexLeq(key(Decoded[p]), key(Decoded[q]))

\* four rows of six: the order starts with the windows of row 3 and ends
\* with the aisle seats of row 2
C9_Witness ==
    /\ Generated(STEFFEN)
    /\ frame[1].num_columns = 6
    /\ frame[1].num_rows = 4
    /\ Order[1] = SeatName(3, "A")
    /\ Order[12] = SeatName(1, "D")
    /\ Order[13] = SeatName(4, "A")
    /\ Order[24] = SeatName(2, "D")

\* the tiers by position in the row: the first and last column are the
\* windows, the two central columns the aisle seats
PositionTier(i, n) ==
    CASE i \in {1, n} -> 1
      [] 2 * i \in {n, n + 2} -> 3
      [] OTHER -> 2

\* C10 as stated: for every even column count N >= 4 the Window-Middle-Aisle
\* order emits every window seat (first or last column) before every seat of
\* another column, the seats of the two central columns after every seat of a
\* non-central column, and within a tier in ascending row, then letter order.
C10_WindowMiddleAisleAnyColumns ==
    (Generated(WINDOW_MIDDLE_AISLE) /\ frame[1].num_columns >= 4) =>
        \A p, q \in 1..Len(Order) :
            p < q =>
                LET key(rc) == << PositionTier(rc[2], frame[1].num_columns), rc[1], rc[2] >>
                IN  LexLess(key(Decoded[p]), key(Decoded[q]))

\* the tiers of the fixed letter table: A, F; B, E; every other letter
TableTier(i) == CASE i \in {1, 6} -> 1 [] i \in {2, 5} -> 2 [] OTHER -> 3

\* C10 (amended): the Window-Middle-Aisle order emits the seats by the tier of
\* the fixed letter table (A, F first; B, E second; every other letter last)
\* and within a tier in ascending row, then letter order; in a 6-column cabin
\* these tiers are the window, middle and aisle seats.
C10_WindowMiddleAisleFixedTable ==
    Generated(WINDOW_MIDDLE_AISLE) =>
        /\ \A p, q \in 1..Len(Order) :
              p < q =>
                  LET key(rc) == << TableTier(rc[2]), rc[1], rc[2] >>
                  IN  LexLess(key(Decoded[p]), key(Decoded[q]))
        /\ frame[1].num_columns = 6 =>
              \A i \in 1..6 : TableTier(i) = PositionTier(i, 6)

\* a 4-column cabin of two rows: the window seat 01D boards after the aisle
\* seat 02C, in the last tier
C10_Witness ==
    /\ Generated(WINDOW_MIDDLE_AISLE)
    /\ frame[1].num_columns = 4
    /\ frame[1].num_rows = 2
    /\ Order = << SeatName(1, "A"), SeatName(2, "A"), SeatName(1, "B"), SeatName(2, "B"),
                  SeatName(1, "C"), SeatName(1, "D"), SeatName(2, "C"), SeatName(2, "D") >>

\* the rows of the order in the sequence of their first seats
RowsVisited ==
    [k \in 1..frame[1].num_rows |-> Decoded[(k - 1) * frame[1].num_columns + 1][1]]

\* the Row Random orders of a cabin, over every outcome of the shuffles
RowRandomOrders(num_rows, num_columns) ==
    {_row_random_boarding(all_seats(num_rows, num_columns), num_rows, num_columns, tape) :
        tape \in Tapes(OrderNeed(ROW_RANDOM, num_rows, num_columns), << >>, 0)}

\* C14: in every Row Random order, whatever the shuffles return, the k-th
\* block of num_columns consecutive positions holds the seats of one row and
\* all of them, and no two blocks hold the same row: a row is emitted
\* completely before any seat of the next visited row. The sequence of the
\* rows and the sequence of the letters of each row can be any permutation:
\* the 3 x 2 cabin has 3! x 2! x 2! x 2! orders.
C14_RowRandomRowsContiguous ==
    Generated(ROW_RANDOM) =>
        /\ Cardinality(RowRandomOrders(3, 2)) = 6 * 2 * 2 * 2
        /\ Len(Order) = frame[1].num_rows * frame[1].num_columns
        /\ \A p \in 1..Len(Order) :
              Decoded[p][1] = RowsVisited[((p - 1) \div frame[1].num_columns) + 1]
        /\ \A k \in 1..frame[1].num_rows :
              {Decoded[p][2] : p \in ((k - 1) * frame[1].num_columns + 1)..(k * frame[1].num_columns)}
                  = 1..frame[1].num_columns
        /\ \A j, k \in 1..frame[1].num_rows : j # k => RowsVisited[j] # RowsVisited[k]

\* a Row Random order of the 3 x 2 cabin: the rows in the sequence 2, 3, 1,
\* the letters of the first and the last of them reversed
C14_Witness ==
    /\ Generated(ROW_RANDOM)
    /\ frame[1].num_rows = 3 /\ frame[1].num_columns = 2
    /\ Order = << SeatName(2, "B"), SeatName(2, "A"), SeatName(3, "A"), SeatName(3, "B"),
                  SeatName(1, "B"), SeatName(1, "A") >>

(* ------------- the sequencer, the generator in any state -------------- *)

\* the generator was seeded with some seed and drawn from before the call:
\* a part of its stream is known, and it stands somewhere in that part
EarlierStreams ==
    UNION {[1..n -> 0..(NumFactors - 1)] : n \in 0..MaxEarlierDraws}

InitSource ==
    /\ frame = [c \in Calls |-> IdleFrame]
    /\ stream \in EarlierStreams
    /\ pos \in 0..Len(stream)
    /\ query = IdleQuery

SpecSource == InitSource /\ [][NextOrder]_vars

\* C13: the Back to Front order is a function of the cabin shape alone: its
\* p-th seat is in row num_rows - (p - 1) div num_columns and has the
\* ((p - 1) mod num_columns + 1)-th letter, so the rows run from the highest
\* down to row 1 and the letters of a row in alphabetical order; generating
\* it takes no draw, whatever the state of the generator.
C13_BackToFrontIsFixed ==
    Generated(BACK_TO_FRONT) =>
        /\ Len(Order) = frame[1].num_rows * frame[1].num_columns
        /\ \A p \in 1..Len(Order) :
              Order[p] =
                  SeatName(frame[1].num_rows - ((p - 1) \div frame[1].num_columns),
                           column_letters(frame[1].num_columns)
                               [((p - 1) % frame[1].num_columns) + 1])
        /\ frame[1].draws = 0
        /\ pos = frame[1].start_pos

\* the Back to Front order of the 2 x 4 cabin, generated with the generator
\* standing after earlier draws
C13_Witness ==
    /\ Generated(BACK_TO_FRONT)
    /\ frame[1].num_rows = 2 /\ frame[1].num_columns = 4
    /\ Order = << SeatName(2, "A"), SeatName(2, "B"), SeatName(2, "C"), SeatName(2, "D"),
                  SeatName(1, "A"), SeatName(1, "B"), SeatName(1, "C"), SeatName(1, "D") >>
    /\ Len(stream) = MaxEarlierDraws
    /\ pos = 1
    /\ stream[1] # stream[2]

(* ------------------------- the clock on its own ------------------------ *)

\* the concrete permutation of the 1 x 6 cabin used as the end-to-end fixture
FixtureOrder ==
    << SeatName(1, "D"), SeatName(1, "F"), SeatName(1, "E"),
       SeatName(1, "A"), SeatName(1, "B"), SeatName(1, "C") >>

\* the cabins whose orders are replayed: the one-seat cabin, the cabins of at
\* most MaxCallSeats seats (every method, every shuffle) and the cabins of at
\* most MaxClockRows rows (the methods that do not shuffle)
ClockInputs ==
    {in \in BoardingMethod \X (1..MaxRows) \X ({1} \cup Columns) :
        \/ in[2] * in[3] <= MaxCallSeats /\ in[3] # 1
        \/ in[2] = 1 /\ in[3] = 1
        \/ in[2] <= MaxClockRows /\ in[3] # 1 /\ in[1] \notin {RANDOM, ROW_RANDOM}}

ClockFrame(method, num_rows, num_columns, order) ==
    [IdleFrame EXCEPT !.pc = "clock", !.method = method, !.num_rows = num_rows,
                      !.num_columns = num_columns, !.boarding_order = order]

\* _simulate_aisle_boarding is entered with an order: one a method generates,
\* or the fixture
InitClock ==
    /\ stream = << >>
    /\ pos = 0
    /\ query = IdleQuery
    /\ \/ \E in \in ClockInputs :
             \E tape \in Tapes(OrderNeed(in[1], in[2], in[3]), << >>, 0) :
                frame = [c \in Calls |->
                            IF c = 1
                            THEN ClockFrame(in[1], in[2], in[3],
                                            boarding_order(in[1], in[2], in[3], tape))
                            ELSE IdleFrame]
       \/ frame = [c \in Calls |->
                      IF c = 1 THEN ClockFrame(RANDOM, 1, 6, FixtureOrder) ELSE IdleFrame]

Seat == Step(1)

Finish == Return(1)

NextClock == Seat \/ Finish

SpecClock == InitClock /\ [][NextClock]_vars

\* every exponential draw taken so far was its mean
AllDrawsMean == \A i \in 1..Len(stream) : stream[i] % NumFactors = MeanRaw

\* the seats seated before the i-th of the order
SeatedBefore(i) == {Order[j] : j \in 1..(i - 1)}

\* luggage delay plus blocked-sitting delay of the i-th passenger, at the means
LuggageAndBlocking(i) ==
    LET blocking_count == _count_blocking_passengers(Order[i], SeatedBefore(i))
    IN  30 + (IF blocking_count > 0 THEN 30 + 15 * blocking_count ELSE 0)

\* the sum of these delays over the first n passengers
SumLuggageAndBlocking(n) ==
    LET S[k \in 0..n] == IF k = 0 THEN 0 ELSE S[k - 1] + LuggageAndBlocking(k)
    IN  S[n]

\* the rows all of whose seats are among the first n of the order
RowsCompleted(n) ==
    {row \in 1..frame[1].num_rows :
        \A i \in 1..frame[1].num_columns :
            SeatName(row, column_letters(frame[1].num_columns)[i]) \in SeatedBefore(n + 1)}

IsFixture == frame[1].boarding_order = FixtureOrder /\ frame[1].num_columns = 6

IsOneSeat == frame[1].num_rows = 1 /\ frame[1].num_columns = 1

\* C3 as stated: with every draw at its mean the total is the sum of the
\* luggage and blocking delays and nothing else; the fixture gives 270 s and
\* the one-seat cabin one luggage delay.
C3_TotalLuggageAndBlockingOnly ==
    AllDrawsMean =>
        /\ frame[1].total_time = SumLuggageAndBlocking(frame[1].idx)
        /\ (frame[1].pc = "done" /\ IsFixture) => frame[1].total_time = 270
        /\ (frame[1].pc = "done" /\ IsOneSeat) => frame[1].total_time = 30

\* C3 (amended): with every draw at its mean the total is the sum of the
\* luggage delay (30) and the blocking delay (30 + 15 x blocking_count, zero
\* when nobody blocks) of every passenger, plus one extra-luggage delay (15)
\* for every completed row; the fixture gives 6 x 30 + 45 + 45 + 15 = 285 s and
\* the one-seat cabin 30 + 15 = 45 s from two draws, for every method.
C3_TotalWithExtraLuggage ==
    AllDrawsMean =>
        /\ frame[1].total_time =
              SumLuggageAndBlocking(frame[1].idx)
                + 15 * Cardinality(RowsCompleted(frame[1].idx))
        /\ (frame[1].pc = "done" /\ IsFixture) => frame[1].total_time = 285
        /\ (frame[1].pc = "done" /\ IsOneSeat) =>
              frame[1].total_time = 45 /\ frame[1].draws = 2

\* the fixture replayed to the end with every draw at its mean
C3_Witness ==
    /\ frame[1].pc = "done"
    /\ IsFixture
    /\ AllDrawsMean
    /\ frame[1].idx = 6
    /\ frame[1].total_time = 285

(* -------------------- the clock on its own, to its end ------------------ *)

\* the orders replayed to the end: the fixture, the one-seat cabin and the
\* cabins a whole call is run on
InitClockLive ==
    /\ InitClock
    /\ \/ IsFixture
       \/ IsOneSeat
       \/ << frame[1].num_rows, frame[1].num_columns >> \in CallShapes

\* the call is synchronous and its loop is bounded: an iteration or the
\* return that can be taken is taken
SpecClockLive == InitClockLive /\ [][NextClock]_vars /\ WF_vars(NextClock)

\* Processing(idx): the first idx seats of the order are occupied, no other
ClockPass ==
    /\ frame[1].pc \in {"clock", "done"}
    /\ frame[1].idx \in 0..Len(Order)
    /\ frame[1].seated_passengers = SeatedBefore(frame[1].idx + 1)
    /\ Cardinality(frame[1].seated_passengers) = frame[1].idx
    /\ frame[1].total_time >= 0
    /\ Done(1) => frame[1].idx = Len(Order)

\* Processing(i) -> Processing(i + 1): the next seat of the list, its delays
\* computed against the occupancy before it is marked
ClockIteration ==
    LET f == frame[1]
        seat == Order[f.idx + 1]
        before == SeatedBefore(f.idx + 1)
        tape == SubSeq(stream', pos + 1, pos')
    IN  /\ Running(1) /\ f.idx < Len(Order)
        /\ frame'[1].pc = "clock"
        /\ frame'[1].boarding_order = Order
        /\ frame'[1].idx = f.idx + 1
        /\ frame'[1].seated_passengers = f.seated_passengers \cup {seat}
        /\ seat \notin f.seated_passengers
        /\ Len(tape) = Len(StepNeed(seat, before, f.num_columns))
        /\ frame'[1].draws = f.draws + Len(tape)
        /\ frame'[1].total_time =
              f.total_time + passenger_time(seat, before, f.num_columns, tape)
        /\ frame'[1].total_time >= f.total_time

\* Processing(last) -> Done: the total is emitted as it stands
ClockEmits ==
    /\ Running(1) /\ frame[1].idx = Len(Order)
    /\ frame'[1] = [frame[1] EXCEPT !.pc = "done", !.end_pos = pos]
    /\ pos' = pos /\ stream' = stream

\* C15: the clock walks the order in one pass: at every moment the occupancy
\* is exactly the first idx seats of the list; every step either processes the
\* next seat of the list (blocking count, row count and delays taken against
\* the occupancy before the seat is added; the seat added, nothing removed; the
\* total not decreased) or, after the last seat, returns the total; and the
\* run ends, Done, having taken exactly len(order) iterations.
C15_SinglePass ==
    /\ [](ClockPass)
    /\ [][ClockIteration \/ ClockEmits]_vars
    /\ <>(Done(1) /\ frame[1].idx = Len(Order))

\* the fixture replayed to Done: six iterations, F and A blocked by two
\* passengers each, the last passenger completing the row
C15_Witness ==
    /\ Done(1)
    /\ IsFixture
    /\ frame[1].idx = 6
    /\ frame[1].seated_passengers = Range(FixtureOrder)
    /\ frame[1].draws = 6 + 2 + 1
    /\ frame[1].total_time > 0

(* ---------------------- the clock, a long cabin ------------------------ *)

\* the methods that do not shuffle, on the cabin of LongRows rows of six seats
LongInputs == {BACK_TO_FRONT, WINDOW_MIDDLE_AISLE, STEFFEN} \X {LongRows} \X {6}

\* the seed's stream starts with draws at their mean
MeanStream == [i \in 1..MaxFree |-> MeanRaw]

InitLong ==
    /\ stream = MeanStream
    /\ pos = 0
    /\ query = IdleQuery
    /\ \E in \in LongInputs :
          frame = [c \in Calls |->
                      IF c = 1
                      THEN ClockFrame(in[1], in[2], in[3],
                                      boarding_order(in[1], in[2], in[3], << >>))
                      ELSE IdleFrame]

SpecLong == InitLong /\ [][NextClock]_vars

\* the seat the clock processes next, as (row, column index) of the cabin
NextSeat ==
    CHOOSE rc \in (1..frame[1].num_rows) \X (1..frame[1].num_columns) :
        Order[frame[1].idx + 1] =
            SeatName(rc[1], column_letters(frame[1].num_columns)[rc[2]])

\* the draws the step takes after the luggage draw and the blocked-sitting draw
ExtraLuggageDraws ==
    (frame'[1].draws - frame[1].draws) - 1
      - (IF _count_blocking_passengers(Order[frame[1].idx + 1],
                                       frame[1].seated_passengers) > 0
         THEN 1 ELSE 0)

\* every other seat of the next seat's row is occupied
CompletesRow ==
    \A i \in 1..frame[1].num_columns :
        \/ i = NextSeat[2]
        \/ SeatName(NextSeat[1], column_letters(frame[1].num_columns)[i])
              \in frame[1].seated_passengers

\* C16: in every cabin, replaying a permutation of its seats, a passenger
\* takes the extra-luggage draw if and only if he is the one whose seating
\* makes every seat of his row occupied: once per row, by its last passenger.
C16_ExtraLuggageOncePerRow ==
    [][(Running(1) /\ frame'[1].idx = frame[1].idx + 1) =>
          ExtraLuggageDraws = (IF CompletesRow THEN 1 ELSE 0)]_vars

\* the blocking count the clock computes for the seat it processes next
NextBlockingCount ==
    _count_blocking_passengers(Order[frame[1].idx + 1], frame[1].seated_passengers)

\* the draws the step takes after the luggage draw and the extra-luggage draw
SittingDraws ==
    (frame'[1].draws - frame[1].draws) - 1
      - (IF _is_last_passenger_in_row(Order[frame[1].idx + 1],
                                      frame[1].seated_passengers,
                                      frame[1].num_columns)
         THEN 1 ELSE 0)

\* the blocking counts of the letters A..F of a row boarded in letter order
BackToFrontCounts == << 0, 0, 0, 0, 1, 2 >>

\* C17: in a 6-column cabin of any number of rows, every seating step of the
\* Window-Middle-Aisle order and of the Steffen order has blocking_count = 0
\* and draws no blocked-sitting delay; under Back to Front the seats A..F of
\* every row have the blocking counts 0, 0, 0, 0, 1, 2.
C17_BlockingByMethod ==
    [][(Running(1) /\ frame'[1].idx = frame[1].idx + 1 /\ frame[1].num_columns = 6) =>
          /\ frame[1].method \in {WINDOW_MIDDLE_AISLE, STEFFEN} =>
                NextBlockingCount = 0 /\ SittingDraws = 0
          /\ frame[1].method = BACK_TO_FRONT =>
                /\ NextBlockingCount = BackToFrontCounts[NextSeat[2]]
                /\ SittingDraws = (IF NextSeat[2] >= 5 THEN 1 ELSE 0)]_vars

(* ------------------------ two calls, interleaved ----------------------- *)

\* two threads each make one call; a thread is switched between the call's
\* order generation and the iterations of its loop. Both board the cabin of
\* the seats 01A and 01B, in a shuffled order or in a fixed order (on this
\* cabin the other three methods give the orders of these two)
ConcInputs == {RANDOM, BACK_TO_FRONT} \X {1} \X {2}

CallAnyTime ==
    \E c \in Calls, in \in ConcInputs : Call(c, in[1], in[2], in[3])

NextConc == Seed \/ CallAnyTime \/ StepCall \/ ReturnCall

SpecConc == Init /\ [][NextConc]_vars

RECURSIVE AloneClock(_, _, _, _, _, _)
\* the loop of _simulate_aisle_boarding run on its own over the revealed
\* stream from position p on: its total, or ok = FALSE when the stream is not
\* revealed far enough
AloneClock(order, num_columns, i, seated, total, p) ==
    IF i > Len(order) THEN [ok |-> TRUE, total |-> total]
    ELSE LET n == Len(StepNeed(order[i], seated, num_columns))
         IN  IF p + n > Len(stream) THEN [ok |-> FALSE, total |-> 0]
             ELSE AloneClock(order, num_columns, i + 1, seated \cup {order[i]},
                             total + passenger_time(order[i], seated, num_columns,
                                                    SubSeq(stream, p + 1, p + n)),
                             p + n)

\* what call c returns when it runs alone from the generator state it started in
Alone(c) ==
    LET f == frame[c]
        k == Len(OrderNeed(f.method, f.num_rows, f.num_columns))
    IN  IF f.start_pos + k > Len(stream) THEN [ok |-> FALSE, total |-> 0]
        ELSE AloneClock(boarding_order(f.method, f.num_rows, f.num_columns,
                                       SubSeq(stream, f.start_pos + 1, f.start_pos + k)),
                        f.num_columns, 1, {}, 0, f.start_pos + k)

\* no other call drew from the generator between the start and the return of call c
Undisturbed(c) == frame[c].end_pos = frame[c].start_pos + frame[c].draws

\* C8 as stated: interleaved calls share no mutable state, so each call
\* returns the total it returns when it runs alone from the same seed.
C8_InterleavedCallsIndependent ==
    \A c \in Calls :
        (Done(c) /\ Alone(c).ok) => frame[c].total_time = Alone(c).total

\* C8 (amended): interleaved calls share no occupancy state (the occupancy of a
\* call is exactly the seats it has seated itself), but they share the
\* process-wide random generator: a call returns the total it returns alone
\* from the same seed when no other call draws between its start and its return.
C8_OwnOccupancySharedGenerator ==
    \A c \in Calls :
        /\ frame[c].seated_passengers =
              {frame[c].boarding_order[j] : j \in 1..frame[c].idx}
        /\ (Done(c) /\ Undisturbed(c) /\ Alone(c).ok) =>
              frame[c].total_time = Alone(c).total

\* call 2 ran from start to return inside call 1: call 2 was not disturbed
\* and returns its total alone, call 1 was disturbed and does not
C8_Witness ==
    /\ Done(1) /\ Done(2)
    /\ Undisturbed(2) /\ ~Undisturbed(1)
    /\ frame[1].start_pos = 0
    /\ frame[2].draws > 0
    /\ Alone(1).ok /\ Alone(2).ok
    /\ frame[2].total_time = Alone(2).total
    /\ frame[1].total_time # Alone(1).total

====
